---- MODULE Spec2Model ----
(***************************************************************************)
(* Model of the joint abstraction layer of monopod_sdk:                    *)
(*   - EncoderJointModule (src/src/encoder_joint_module.cpp): calibrated   *)
(*     getters, the mutex-guarded limit table, check_limits;               *)
(*   - Monopod::getJointDataSerialized and the batch getters               *)
(*     (src/demos/sine_position_control.cpp, the Monopod class).           *)
(*                                                                         *)
(*   - Monopod::set_torque_target(s), declared in the same file;           *)
(*   - SinePositionControl::loop and stop_loop                             *)
(*     (src/demos/sine_position_control.cpp);                              *)
(*   - printing_loop                                                       *)
(*     (src/src/monopod_drivers/demos/demo_planarizer.cpp).                *)
(*                                                                         *)
(* The specifications share the variables:                                 *)
(*   Spec          one caller reads and calibrates one joint module while  *)
(*                 the encoder appends samples, each call atomic;          *)
(*   SpecCheck     one caller uses the limit table of one joint module     *)
(*                 while the encoder appends samples, each call atomic;    *)
(*   SpecLimit     several threads run set_limit / get_limit /             *)
(*                 check_limits statement by statement on one module;      *)
(*   SpecRegistry  the Monopod registry and its batch getters;             *)
(*   SpecRead      one caller mixes the getters and check_limits with      *)
(*                 calibration, set_limit and new samples;                 *)
(*   SpecTorque    the Monopod registry and its torque setters;            *)
(*   SpecLoop      the control thread runs SinePositionControl::loop       *)
(*                 statement by statement while the main thread requests   *)
(*                 the stop and calls stop_loop.                           *)
(*   SpecLoopFair  SpecLoop with the control thread scheduled fairly;      *)
(*   SpecPrint     printing_loop of the planarizer demo reads the output   *)
(*                 series of two CAN buses while frames arrive.            *)
(***************************************************************************)
EXTENDS Integers, Sequences, FiniteSets, TLC

VARIABLES
    gear_ratio_,      \* EncoderJointModule::gear_ratio_ (double)
    zero_angle_,      \* EncoderJointModule::zero_angle_ (double)
    polarity_,        \* EncoderJointModule::polarity_   (+1.0 or -1.0)
    history,          \* encoder_->get_measurement(kind): raw samples, oldest first
    limits_,          \* EncoderJointModule::limits_: map kind -> JointLimit
    limit_door_,      \* EncoderJointModule::limit_door_: 0 = free, else owner thread
    last,             \* Spec: the caller's last completed call and its result
    thr,              \* SpecLimit: per thread, position in its call and its locals
    is_initialized,       \* Monopod::is_initialized
    read_joint_indexing,  \* Monopod::read_joint_indexing
    joint_data,           \* what getJointData(joint_index) reads, per kind and joint
    batch,                \* SpecRegistry: the last batch getter call and its result
    write_joint_indexing, \* Monopod::write_joint_indexing
    torque_target_,       \* per joint, the torque command slot of its module
    cmd,                  \* SpecTorque: the last torque setter call and its result
    stop_loop_,       \* SinePositionControl::stop_loop_
    encoders_,        \* SinePositionControl::encoders_ (one log per joint)
    velocities_,      \* SinePositionControl::velocities_
    torques_,         \* SinePositionControl::torques_
    control_buffer_,  \* SinePositionControl::control_buffer_
    loop,             \* loop(): position of the control thread and its locals
    leg_calls,        \* the calls loop() has made on leg_ in the current iteration
    stop_at,          \* where loop() was when stop_loop_ was set
    main_pc,          \* position of the main thread in stop_loop()
    output_frame,     \* per CAN bus, the time series get_output_frame() returns
    printer           \* printing_loop(): position of the thread and its locals

vars == <<gear_ratio_, zero_angle_, polarity_, history, limits_, limit_door_,
          last, thr, is_initialized, read_joint_indexing, joint_data, batch,
          write_joint_indexing, torque_target_, cmd,
          stop_loop_, encoders_, velocities_, torques_, control_buffer_, loop,
          leg_calls, stop_at, main_pc, output_frame, printer>>

moduleVars == <<gear_ratio_, zero_angle_, polarity_, history, limits_, limit_door_>>
calibrationVars == <<gear_ratio_, zero_angle_, polarity_>>
registryVars == <<is_initialized, read_joint_indexing, joint_data, batch>>
commandVars == <<write_joint_indexing, torque_target_, cmd>>
bufferVars == <<encoders_, velocities_, torques_, control_buffer_>>
loopVars == <<stop_loop_, bufferVars, loop, leg_calls, stop_at, main_pc>>
printVars == <<output_frame, printer>>

(***************************************************************************)
(* Bounds of the model.                                                    *)
(***************************************************************************)
\* total number of samples the encoder appends over all channels
MaxSamples == 2
\* number of threads that use the limit table concurrently
NumThreads == 2
\* longest explicit index list handed to a batch getter
MaxIndexes == 2
\* number of iterations the control loop is followed for
MaxTicks == 2

(***************************************************************************)
(* double: a rational n/d in lowest terms with d > 0, or NaN.              *)
(* Comparisons with NaN are false and arithmetic on NaN gives NaN, as in   *)
(* IEEE 754; rounding is not modelled.                                     *)
(***************************************************************************)
RECURSIVE Gcd(_, _)
Gcd(a, b) == IF b = 0 THEN a ELSE Gcd(b, a % b)

Abs(a) == IF a < 0 THEN -a ELSE a

Rat(n, d) ==
    LET s == IF d < 0 THEN -1 ELSE 1
        g == Gcd(Abs(n), Abs(d))
    IN  [nan |-> FALSE, n |-> (s * n) \div g, d |-> (s * d) \div g]

NaN == [nan |-> TRUE, n |-> 0, d |-> 1]

isnan(x) == x.nan

DMul(x, y) == IF x.nan \/ y.nan THEN NaN ELSE Rat(x.n * y.n, x.d * y.d)

DDiv(x, y) == IF x.nan \/ y.nan THEN NaN ELSE Rat(x.n * y.d, x.d * y.n)

DSub(x, y) == IF x.nan \/ y.nan THEN NaN ELSE Rat(x.n * y.d - y.n * x.d, x.d * y.d)

DLe(x, y) == ~x.nan /\ ~y.nan /\ x.n * y.d <= y.n * x.d

DLt(x, y) == ~x.nan /\ ~y.nan /\ x.n * y.d < y.n * x.d

\* std::numeric_limits<double>::max(), standing above every value of the model
DBL_MAX == 1000000

(***************************************************************************)
(* Measurement kinds and joint limits.                                     *)
(***************************************************************************)
Measurements == {"position", "velocity", "acceleration", "encoder_index"}

JointLimit(min, max) == [min |-> min, max |-> max]

\* JointLimit(): {lowest(), max()}
DefaultLimit == JointLimit(Rat(-DBL_MAX, 1), Rat(DBL_MAX, 1))

\* in_range with the upper bound inclusive
in_range_closed(value, min, max) == DLe(min, value) /\ DLe(value, max)

in_range(value, min, max) == DLe(min, value) /\ DLt(value, max)

(***************************************************************************)
(* Inputs of the model: constructor arguments, raw samples, limits.        *)
(***************************************************************************)
GearRatios == {Rat(1, 1), Rat(2, 1)}

ZeroAngles == {Rat(0, 1), Rat(1, 5)}

RawSamples == {Rat(0, 1), Rat(1, 2), Rat(1, 1)}

\* the raw samples the encoder appends in SpecCheck
CheckSamples == {Rat(0, 1), Rat(1, 1)}

LimitArgs == {JointLimit(Rat(0, 1), Rat(1, 1)), JointLimit(Rat(1, 1), Rat(1, 1))}

\* the limits SpecCheck hands to set_limit, per kind
LimitArgsOf(kind) ==
    IF kind \in {"position", "velocity"}
    THEN LimitArgs
    ELSE {JointLimit(Rat(0, 1), Rat(1, 1))}

\* the kinds and limits the threads of SpecLimit hand to set_limit and get_limit:
\* no min of one limit with the max of another is itself one of the limits
ThreadKinds == {"position", "encoder_index"}

ThreadLimitArgs == {JointLimit(Rat(0, 1), Rat(1, 1)), JointLimit(Rat(2, 1), Rat(3, 1))}

(***************************************************************************)
(* The measurement history of one channel (time_series, an external        *)
(* collaborator): samples oldest first, time indices starting at 0.        *)
(***************************************************************************)
length(h) == Len(h)

newest_element(h) == h[Len(h)]

newest_timeindex(h) == Len(h) - 1

TotalSamples ==
    Len(history["position"]) + Len(history["velocity"])
        + Len(history["acceleration"]) + Len(history["encoder_index"])

(***************************************************************************)
(* EncoderJointModule: calibrated getters.                                 *)
(***************************************************************************)
PolarityOf(reverse_polarity) == IF reverse_polarity THEN Rat(-1, 1) ELSE Rat(1, 1)

\* get_joint_measurement that reports 0 for a channel with no sample
get_joint_measurement_zero(measurement_id) ==
    IF length(history[measurement_id]) = 0
    THEN Rat(0, 1)
    ELSE DMul(polarity_, newest_element(history[measurement_id]))

get_joint_measurement(measurement_id) ==
    IF length(history[measurement_id]) = 0
    THEN NaN
    ELSE DMul(polarity_, newest_element(history[measurement_id]))

\* get_joint_measurement_index that reports the number of samples
get_joint_measurement_index_count(measurement_id) ==
    IF length(history[measurement_id]) = 0
    THEN -1
    ELSE length(history[measurement_id])

get_joint_measurement_index(measurement_id) ==
    IF length(history[measurement_id]) = 0
    THEN -1
    ELSE newest_timeindex(history[measurement_id])

\* get_measured_angle that adds the zero offset instead of subtracting it
get_measured_angle_plus ==
    DSub(DDiv(get_joint_measurement("position"), gear_ratio_),
         DSub(Rat(0, 1), zero_angle_))

get_measured_angle ==
    DSub(DDiv(get_joint_measurement("position"), gear_ratio_), zero_angle_)

\* get_measured_velocity that subtracts the zero offset as get_measured_angle does
get_measured_velocity_zeroed ==
    DSub(DDiv(get_joint_measurement("velocity"), gear_ratio_), zero_angle_)

get_measured_velocity == DDiv(get_joint_measurement("velocity"), gear_ratio_)

get_measured_acceleration == DDiv(get_joint_measurement("acceleration"), gear_ratio_)

get_measured_index_angle == DDiv(get_joint_measurement("encoder_index"), gear_ratio_)

get_measured(kind) ==
    CASE kind = "position" -> get_measured_angle
      [] kind = "velocity" -> get_measured_velocity
      [] kind = "acceleration" -> get_measured_acceleration
      [] OTHER -> get_measured_index_angle

(***************************************************************************)
(* EncoderJointModule::check_limits, one iteration of its loop: the        *)
(* switch, then the range test unless the value is a NaN acceleration.     *)
(***************************************************************************)
switch_meassurement(meassurement_id) ==
    CASE meassurement_id = "position" -> get_measured_angle
      [] meassurement_id = "velocity" -> get_measured_velocity
      [] meassurement_id = "acceleration" -> get_measured_acceleration
      [] OTHER -> Rat(0, 1)

\* the test of check_limits with NaN let through for every kind
limit_valid_any_nan(meassurement_id, meassurement, joint_limit) ==
    IF ~isnan(meassurement)
    THEN in_range(meassurement, joint_limit.min, joint_limit.max)
    ELSE TRUE

limit_valid(meassurement_id, meassurement, joint_limit) ==
    IF ~(isnan(meassurement) /\ meassurement_id = "acceleration")
    THEN in_range(meassurement, joint_limit.min, joint_limit.max)
    ELSE TRUE

\* the value check_limits returns when it runs to its end on the current state
check_limits_valid ==
    \A k \in DOMAIN limits_ : limit_valid(k, switch_meassurement(k), limits_[k])

\* limits_[index] = limit
limits_assign(lims, index, limit) ==
    [k \in DOMAIN lims \cup {index} |-> IF k = index THEN limit ELSE lims[k]]

(***************************************************************************)
(* Spec and SpecCheck: one caller and the encoder that appends             *)
(* samples.  Every call is one action; last holds the call that returned   *)
(* last and is reset by every change of the module's state.                *)
(***************************************************************************)
Threads == 1 .. NumThreads

\* the one thread that calls in Spec and SpecCheck
Caller == CHOOSE t \in Threads : TRUE

NoCall ==
    [op |-> "none", kind |-> "none", val |-> NaN, lim |-> DefaultLimit,
     idx |-> -1, flag |-> FALSE, err |-> "none"]

\* a caller that re-locked the mutex it owns and hangs makes no further call
CallerRuns == last.err # "deadlock"

\* limit_door_.lock() by the thread that owns limit_door_ is undefined for
\* std::mutex: the build either hangs the thread or throws std::system_error
RelockOutcomes == {"deadlock", "system_error"}

InitModule ==
    /\ gear_ratio_ \in GearRatios
    /\ zero_angle_ \in ZeroAngles
    /\ polarity_ \in {PolarityOf(r) : r \in BOOLEAN}
    /\ history = [k \in Measurements |-> <<>>]
    /\ limits_ = <<>>
    /\ limit_door_ = 0

InitRegistryIdle ==
    /\ is_initialized = FALSE
    /\ read_joint_indexing = <<>>
    /\ joint_data = <<>>
    /\ batch = <<>>

\* the torque setters are not in use
InitCommandIdle ==
    /\ write_joint_indexing = <<>>
    /\ torque_target_ = <<>>
    /\ cmd = <<>>

\* no control loop is running
InitLoopIdle ==
    /\ stop_loop_ = FALSE
    /\ encoders_ = <<>>
    /\ velocities_ = <<>>
    /\ torques_ = <<>>
    /\ control_buffer_ = <<>>
    /\ loop = <<>>
    /\ leg_calls = <<>>
    /\ stop_at = <<>>
    /\ main_pc = "none"

\* no CAN bus is open and no printing thread is running
InitPrintIdle ==
    /\ output_frame = <<>>
    /\ printer = <<>>

Init ==
    /\ InitModule
    /\ last = NoCall
    /\ thr = <<>>
    /\ InitRegistryIdle
    /\ InitCommandIdle
    /\ InitLoopIdle
    /\ InitPrintIdle

\* the encoder appends a sample to one channel
PushSample(kind, raw) ==
    /\ TotalSamples < MaxSamples
    /\ history' = [history EXCEPT ![kind] = Append(@, raw)]
    /\ last' = NoCall
    /\ UNCHANGED <<calibrationVars, limits_, limit_door_, thr, registryVars, commandVars,
                   loopVars, printVars>>

SetZeroAngle(zero_angle) ==
    /\ zero_angle_' = zero_angle
    /\ last' = [NoCall EXCEPT !.op = "set_zero_angle", !.val = zero_angle]
    /\ UNCHANGED <<gear_ratio_, polarity_, history, limits_, limit_door_, thr,
                   registryVars, commandVars,
                   loopVars, printVars>>

SetJointPolarity(reverse_polarity) ==
    /\ polarity_' = PolarityOf(reverse_polarity)
    /\ last' = [NoCall EXCEPT !.op = "set_joint_polarity", !.flag = reverse_polarity]
    /\ UNCHANGED <<gear_ratio_, zero_angle_, history, limits_, limit_door_, thr,
                   registryVars, commandVars,
                   loopVars, printVars>>

\* get_measured_angle / _velocity / _acceleration / _index_angle
\* a getter that takes the newest sample out of the history it reads
GetMeasured_consuming(kind) ==
    /\ last' = [NoCall EXCEPT !.op = "get_measured", !.kind = kind,
                              !.val = get_measured(kind)]
    /\ history' = [history EXCEPT
                      ![kind] = IF @ = <<>> THEN @ ELSE SubSeq(@, 1, Len(@) - 1)]
    /\ UNCHANGED <<calibrationVars, limits_, limit_door_, thr, registryVars,
                   commandVars, loopVars, printVars>>

GetMeasured(kind) ==
    /\ last' = [NoCall EXCEPT !.op = "get_measured", !.kind = kind,
                              !.val = get_measured(kind)]
    /\ UNCHANGED <<moduleVars, thr, registryVars, commandVars,
                   loopVars, printVars>>

GetJointMeasurementIndex(kind) ==
    /\ last' = [NoCall EXCEPT !.op = "get_joint_measurement_index", !.kind = kind,
                              !.idx = get_joint_measurement_index(kind)]
    /\ UNCHANGED <<moduleVars, thr, registryVars, commandVars,
                   loopVars, printVars>>

Next ==
    \/ \E k \in Measurements, raw \in RawSamples : PushSample(k, raw)
    \/ \E z \in ZeroAngles : SetZeroAngle(z)
    \/ \E r \in BOOLEAN : SetJointPolarity(r)
    \/ \E k \in Measurements : GetMeasured(k)
    \/ \E k \in Measurements : GetJointMeasurementIndex(k)

Spec == Init /\ [][Next]_vars

(***************************************************************************)
(* SpecCheck: the limit table used by one caller.                          *)
(***************************************************************************)
\* limit_door_.lock() while the caller already owns limit_door_
Relock ==
    /\ limit_door_ = Caller
    /\ \E e \in RelockOutcomes : last' = [NoCall EXCEPT !.op = "lock", !.err = e]
    /\ UNCHANGED <<moduleVars, thr, registryVars, commandVars,
                   loopVars, printVars>>

\* lock; limits_[index] = limit; unlock
SetLimit(index, limit) ==
    /\ CallerRuns
    /\ \/ /\ limit_door_ = 0
          /\ limits_' = limits_assign(limits_, index, limit)
          /\ last' = NoCall
          /\ UNCHANGED <<calibrationVars, history, limit_door_, thr, registryVars, commandVars,
                   loopVars, printVars>>
       \/ Relock

\* lock; return limits_.at(index): at() throws std::out_of_range for a key the
\* map does not hold, and the unlock after the return statement is never run
GetLimit(index) ==
    /\ CallerRuns
    /\ \/ /\ limit_door_ = 0
          /\ limit_door_' = Caller
          /\ last' = IF index \in DOMAIN limits_
                     THEN [NoCall EXCEPT !.op = "get_limit", !.kind = index,
                                         !.lim = limits_[index]]
                     ELSE [NoCall EXCEPT !.op = "get_limit", !.kind = index,
                                         !.err = "out_of_range"]
          /\ UNCHANGED <<calibrationVars, history, limits_, thr, registryVars, commandVars,
                   loopVars, printVars>>
       \/ Relock

\* lock; the loop over limits_; unlock; return valid
CheckLimits ==
    /\ CallerRuns
    /\ \/ /\ limit_door_ = 0
          /\ last' = [NoCall EXCEPT !.op = "check_limits", !.flag = check_limits_valid]
          /\ UNCHANGED <<moduleVars, thr, registryVars, commandVars,
                   loopVars, printVars>>
       \/ Relock

NextCheck ==
    \/ \E k \in Measurements, raw \in CheckSamples : PushSample(k, raw)
    \/ \E k \in Measurements : \E l \in LimitArgsOf(k) : SetLimit(k, l)
    \/ \E k \in Measurements : GetLimit(k)
    \/ CheckLimits

SpecCheck == Init /\ [][NextCheck]_vars

(***************************************************************************)
(* SpecRead: one caller mixes the getters and check_limits with            *)
(* set_zero_angle, set_joint_polarity, set_limit and new samples on a      *)
(* module built by create_encoder_module.                                  *)
(***************************************************************************)
\* the limits SpecRead hands to set_limit: a bounded one and, for position
\* and velocity, the default-constructed unconstrained one
ReadLimitArgsOf(kind) ==
    IF kind \in {"position", "velocity"}
    THEN {JointLimit(Rat(0, 1), Rat(1, 1)), DefaultLimit}
    ELSE {JointLimit(Rat(0, 1), Rat(1, 1))}

ReadLimitKinds == {"position", "velocity", "acceleration"}

InitRead ==
    /\ gear_ratio_ = Rat(1, 1)
    /\ zero_angle_ = Rat(0, 1)
    /\ polarity_ = PolarityOf(FALSE)
    /\ history = [k \in Measurements |-> <<>>]
    /\ limits_ = <<>>
    /\ limit_door_ = 0
    /\ last = NoCall
    /\ thr = <<>>
    /\ InitRegistryIdle
    /\ InitCommandIdle
    /\ InitLoopIdle
    /\ InitPrintIdle

NextRead ==
    \/ \E k \in Measurements, raw \in CheckSamples : PushSample(k, raw)
    \/ \E z \in ZeroAngles : SetZeroAngle(z)
    \/ \E r \in BOOLEAN : SetJointPolarity(r)
    \/ \E k \in ReadLimitKinds : \E l \in ReadLimitArgsOf(k) : SetLimit(k, l)
    \/ \E k \in Measurements : GetMeasured(k)
    \/ \E k \in Measurements : GetJointMeasurementIndex(k)
    \/ CheckLimits

SpecRead == InitRead /\ [][NextRead]_vars

(***************************************************************************)
(* SpecLimit: threads run set_limit, get_limit, check_limits and the       *)
(* calibrated getters on one module, one statement per step.               *)
(***************************************************************************)
NoRet == [op |-> "none", kind |-> "none", lim |-> DefaultLimit, flag |-> FALSE,
          err |-> "none"]

\* a thread outside every call; ret is what its last call returned
Idle(ret) ==
    [pc |-> "idle", index |-> "none", limit |-> DefaultLimit, rmin |-> NaN,
     rmax |-> NaN, valid |-> TRUE, visited |-> {}, ret |-> ret]

\* the module as Monopod::create_encoder_module constructs it
InitLimit ==
    /\ gear_ratio_ = Rat(1, 1)
    /\ zero_angle_ = Rat(0, 1)
    /\ polarity_ = PolarityOf(FALSE)
    /\ history = [k \in Measurements |-> <<>>]
    /\ limits_ = <<>>
    /\ limit_door_ = 0
    /\ last = NoCall
    /\ thr = [t \in Threads |-> Idle(NoRet)]
    /\ InitRegistryIdle
    /\ InitCommandIdle
    /\ InitLoopIdle
    /\ InitPrintIdle

\* a thread enters set_limit(index, limit), get_limit(index), check_limits()
\* or get_measured_angle / _velocity / _acceleration
Call(t) ==
    /\ thr[t].pc = "idle"
    /\ \/ \E k \in ThreadKinds, l \in ThreadLimitArgs :
              thr' = [thr EXCEPT ![t] =
                         [Idle(NoRet) EXCEPT !.pc = "sl_lock", !.index = k, !.limit = l]]
       \/ \E k \in ThreadKinds :
              thr' = [thr EXCEPT ![t] = [Idle(NoRet) EXCEPT !.pc = "gl_lock", !.index = k]]
       \/ thr' = [thr EXCEPT ![t] = [Idle(NoRet) EXCEPT !.pc = "cl_lock"]]
       \/ thr' = [thr EXCEPT ![t] = [Idle(NoRet) EXCEPT !.pc = "gm_measure"]]
    /\ UNCHANGED <<moduleVars, last, registryVars, commandVars,
                   loopVars, printVars>>

\* the call whose lock() statement a thread stands at
CallOf(pc) ==
    CASE pc = "sl_lock" -> "set_limit"
      [] pc = "gl_lock" -> "get_limit"
      [] pc = "cl_lock" -> "check_limits"

AfterLock(pc) ==
    CASE pc = "sl_lock" -> "sl_index"
      [] pc = "gl_lock" -> "gl_at"
      [] pc = "cl_lock" -> "cl_loop"

\* set_limit without its lock() statement
SetLimitLock_skipped(t) ==
    /\ thr[t].pc = "sl_lock"
    /\ thr' = [thr EXCEPT ![t].pc = "sl_index"]
    /\ UNCHANGED <<moduleVars, last, registryVars, commandVars,
                   loopVars, printVars>>

\* limit_door_.lock() of set_limit
SetLimitLock(t) ==
    /\ thr[t].pc = "sl_lock"
    /\ limit_door_ = 0
    /\ limit_door_' = t
    /\ thr' = [thr EXCEPT ![t].pc = "sl_index"]
    /\ UNCHANGED <<calibrationVars, history, limits_, last, registryVars, commandVars,
                   loopVars, printVars>>

\* limit_door_.lock() of get_limit and of check_limits
ReaderLock(t) ==
    /\ thr[t].pc \in {"gl_lock", "cl_lock"}
    /\ limit_door_ = 0
    /\ limit_door_' = t
    /\ thr' = [thr EXCEPT ![t].pc = AfterLock(thr[t].pc)]
    /\ UNCHANGED <<calibrationVars, history, limits_, last, registryVars, commandVars,
                   loopVars, printVars>>

\* limit_door_.lock() by the owner of limit_door_: the thread hangs, or
\* std::system_error leaves the call
RelockByOwner(t) ==
    /\ thr[t].pc \in {"sl_lock", "gl_lock", "cl_lock"}
    /\ limit_door_ = t
    /\ \/ thr' = [thr EXCEPT ![t].pc = "deadlocked"]
       \/ thr' = [thr EXCEPT ![t] = Idle([NoRet EXCEPT !.op = CallOf(thr[t].pc),
                                                        !.kind = thr[t].index,
                                                        !.err = "system_error"])]
    /\ UNCHANGED <<moduleVars, last, registryVars, commandVars,
                   loopVars, printVars>>

\* limits_[index] = limit: operator[] inserts JointLimit() for a new key,
\* then the assignment copies min and max
SetLimitIndex(t) ==
    /\ thr[t].pc = "sl_index"
    /\ limits_' = IF thr[t].index \in DOMAIN limits_
                  THEN limits_
                  ELSE limits_assign(limits_, thr[t].index, DefaultLimit)
    /\ thr' = [thr EXCEPT ![t].pc = "sl_min"]
    /\ UNCHANGED <<calibrationVars, history, limit_door_, last, registryVars, commandVars,
                   loopVars, printVars>>

SetLimitMin(t) ==
    /\ thr[t].pc = "sl_min"
    /\ limits_' = [limits_ EXCEPT ![thr[t].index].min = thr[t].limit.min]
    /\ thr' = [thr EXCEPT ![t].pc = "sl_max"]
    /\ UNCHANGED <<calibrationVars, history, limit_door_, last, registryVars, commandVars,
                   loopVars, printVars>>

SetLimitMax(t) ==
    /\ thr[t].pc = "sl_max"
    /\ limits_' = [limits_ EXCEPT ![thr[t].index].max = thr[t].limit.max]
    /\ thr' = [thr EXCEPT ![t].pc = "sl_unlock"]
    /\ UNCHANGED <<calibrationVars, history, limit_door_, last, registryVars, commandVars,
                   loopVars, printVars>>

SetLimitUnlock(t) ==
    /\ thr[t].pc = "sl_unlock"
    /\ limit_door_' = 0
    /\ thr' = [thr EXCEPT ![t] = Idle([NoRet EXCEPT !.op = "set_limit"])]
    /\ UNCHANGED <<calibrationVars, history, limits_, last, registryVars, commandVars,
                   loopVars, printVars>>

\* limits_.at(index): throws std::out_of_range out of get_limit, the lock held
GetLimitAt(t) ==
    /\ thr[t].pc = "gl_at"
    /\ thr' = IF thr[t].index \in DOMAIN limits_
              THEN [thr EXCEPT ![t].pc = "gl_min"]
              ELSE [thr EXCEPT ![t] = Idle([NoRet EXCEPT !.op = "get_limit",
                                                          !.kind = thr[t].index,
                                                          !.err = "out_of_range"])]
    /\ UNCHANGED <<moduleVars, last, registryVars, commandVars,
                   loopVars, printVars>>

\* the returned JointLimit is copied from the map: min, then max
GetLimitMin(t) ==
    /\ thr[t].pc = "gl_min"
    /\ thr' = [thr EXCEPT ![t].pc = "gl_max", ![t].rmin = limits_[thr[t].index].min]
    /\ UNCHANGED <<moduleVars, last, registryVars, commandVars,
                   loopVars, printVars>>

\* return: the unlock() after the return statement is not reached
GetLimitReturn(t) ==
    /\ thr[t].pc = "gl_max"
    /\ thr' = [thr EXCEPT ![t] =
                  Idle([NoRet EXCEPT !.op = "get_limit", !.kind = thr[t].index,
                                     !.lim = JointLimit(thr[t].rmin,
                                                        limits_[thr[t].index].max)])]
    /\ UNCHANGED <<moduleVars, last, registryVars, commandVars,
                   loopVars, printVars>>

\* for (const auto &limit_info : limits_): the next entry, in the map's order,
\* or the end of the loop
CheckLimitsLoop(t) ==
    /\ thr[t].pc = "cl_loop"
    /\ \/ /\ DOMAIN limits_ \subseteq thr[t].visited
          /\ thr' = [thr EXCEPT ![t].pc = "cl_unlock"]
       \/ \E k \in DOMAIN limits_ \ thr[t].visited :
              thr' = [thr EXCEPT ![t].pc = "cl_min", ![t].index = k]
    /\ UNCHANGED <<moduleVars, last, registryVars, commandVars,
                   loopVars, printVars>>

\* auto joint_limit = limit_info.second: min, then max
CheckLimitsMin(t) ==
    /\ thr[t].pc = "cl_min"
    /\ thr' = [thr EXCEPT ![t].pc = "cl_max", ![t].rmin = limits_[thr[t].index].min]
    /\ UNCHANGED <<moduleVars, last, registryVars, commandVars,
                   loopVars, printVars>>

\* after the copy the switch calls get_measured_* for position, velocity and
\* acceleration and takes the default branch for encoder_index
CheckLimitsMax(t) ==
    /\ thr[t].pc = "cl_max"
    /\ thr' = [thr EXCEPT ![t].pc = IF thr[t].index = "encoder_index"
                                    THEN "cl_range" ELSE "cl_measure",
                          ![t].rmax = limits_[thr[t].index].max]
    /\ UNCHANGED <<moduleVars, last, registryVars, commandVars,
                   loopVars, printVars>>

\* the measurement of the switch, then valid = valid && in_range(...)
CheckLimitsRange(t) ==
    /\ thr[t].pc \in {"cl_measure", "cl_range"}
    /\ thr' = [thr EXCEPT ![t].pc = "cl_loop",
                          ![t].visited = @ \cup {thr[t].index},
                          ![t].valid = @ /\ limit_valid(thr[t].index,
                                                       switch_meassurement(thr[t].index),
                                                       JointLimit(thr[t].rmin, thr[t].rmax))]
    /\ UNCHANGED <<moduleVars, last, registryVars, commandVars,
                   loopVars, printVars>>

CheckLimitsUnlock(t) ==
    /\ thr[t].pc = "cl_unlock"
    /\ limit_door_' = 0
    /\ thr' = [thr EXCEPT ![t] = Idle([NoRet EXCEPT !.op = "check_limits",
                                                     !.flag = thr[t].valid])]
    /\ UNCHANGED <<calibrationVars, history, limits_, last, registryVars, commandVars,
                   loopVars, printVars>>

\* get_measured_angle / _velocity / _acceleration called directly
GetMeasuredReturn(t) ==
    /\ thr[t].pc = "gm_measure"
    /\ thr' = [thr EXCEPT ![t] = Idle([NoRet EXCEPT !.op = "get_measured"])]
    /\ UNCHANGED <<moduleVars, last, registryVars, commandVars,
                   loopVars, printVars>>

NextLimit ==
    \E t \in Threads :
        \/ Call(t)
        \/ SetLimitLock(t)
        \/ ReaderLock(t)
        \/ RelockByOwner(t)
        \/ SetLimitIndex(t)
        \/ SetLimitMin(t)
        \/ SetLimitMax(t)
        \/ SetLimitUnlock(t)
        \/ GetLimitAt(t)
        \/ GetLimitMin(t)
        \/ GetLimitReturn(t)
        \/ CheckLimitsLoop(t)
        \/ CheckLimitsMin(t)
        \/ CheckLimitsMax(t)
        \/ CheckLimitsRange(t)
        \/ CheckLimitsUnlock(t)
        \/ GetMeasuredReturn(t)

SpecLimit == InitLimit /\ [][NextLimit]_vars

(***************************************************************************)
(* SpecRegistry: the Monopod registry and its batch getters.               *)
(***************************************************************************)
\* hip_joint .. planarizer_pitch_joint, the keys of joint_names
NumJoints == 5

JointIds == 0 .. NumJoints - 1

\* read_joint_indexing as initialize(mode) fills it: the leg, or the leg and the planarizer
ReadIndexings == {<<0, 1>>, <<0, 1, 3, 4>>}

\* the joints with a motor: hip_joint and knee_joint
LegJoints == <<0, 1>>

\* write_joint_indexing as initialize(mode) fills it; <<0>> is the registry of
\* one controllable and one readable-only joint
WriteIndexings == {<<0>>, LegJoints}

\* the joint indexes a caller may name; 7 is no joint at all
IndexArgs == {0, 1, 3, 7}

\* the measurements a joint reports once its encoder has data
Readings ==
    {[position |-> Rat(0, 1), velocity |-> Rat(1, 1), acceleration |-> NaN],
     [position |-> Rat(1, 1), velocity |-> Rat(0, 1), acceleration |-> Rat(1, 2)]}

NoReading == [position |-> NaN, velocity |-> NaN, acceleration |-> NaN]

BatchKinds == {"position", "velocity", "acceleration"}

\* the torque targets and the joint indexes a caller hands to the setters
TorqueArgs == {Rat(1, 1), Rat(2, 1)}

TorqueIndexArgs == {0, 1, 7}

TorqueLists == UNION {[1 .. n -> TorqueArgs] : n \in 0 .. MaxIndexes}

TorqueIndexLists == UNION {[1 .. n -> TorqueIndexArgs] : n \in 0 .. MaxIndexes}

NoCmd == [op |-> "none", values |-> <<>>, arg |-> <<>>, ok |-> FALSE]

IndexLists == UNION {[1 .. n -> IndexArgs] : n \in 0 .. MaxIndexes}

NoBatch == [op |-> "none", arg |-> <<>>, present |-> FALSE, data |-> <<>>]

Contains(Vec, Element) == \E i \in 1 .. Len(Vec) : Vec[i] = Element

\* the lambda of get_positions / get_velocities / get_accelerations
getJointData(kind, joint_index) == joint_data[joint_index][kind]

\* the loop of getJointDataSerialized from position i on, data collected so far
RECURSIVE SerializeFrom(_, _, _, _)
SerializeFrom(jointSerialization, i, data, kind) ==
    IF i > Len(jointSerialization)
    THEN [present |-> TRUE, data |-> data]
    ELSE IF is_initialized /\ Contains(read_joint_indexing, jointSerialization[i])
         THEN SerializeFrom(jointSerialization, i + 1,
                            Append(data, getJointData(kind, jointSerialization[i])), kind)
         ELSE [present |-> FALSE, data |-> <<>>]

\* the loop that skips an index it cannot serve instead of returning nullopt
RECURSIVE SerializeValid(_, _, _, _)
SerializeValid(jointSerialization, i, data, kind) ==
    IF i > Len(jointSerialization)
    THEN [present |-> TRUE, data |-> data]
    ELSE IF is_initialized /\ Contains(read_joint_indexing, jointSerialization[i])
         THEN SerializeValid(jointSerialization, i + 1,
                             Append(data, getJointData(kind, jointSerialization[i])), kind)
         ELSE SerializeValid(jointSerialization, i + 1, data, kind)

getJointDataSerialized_partial(joint_indexes, kind) ==
    SerializeValid(IF joint_indexes = <<>> THEN read_joint_indexing ELSE joint_indexes,
                   1, <<>>, kind)

\* the helper that serves every call in the registry's own order
getJointDataSerialized_default(joint_indexes, kind) ==
    SerializeFrom(IF Len(joint_indexes) <= 1 THEN read_joint_indexing
                  ELSE SubSeq(read_joint_indexing, 1, Len(joint_indexes)),
                  1, <<>>, kind)

getJointDataSerialized(joint_indexes, kind) ==
    SerializeFrom(IF joint_indexes = <<>> THEN read_joint_indexing ELSE joint_indexes,
                  1, <<>>, kind)

InitRegistry ==
    /\ gear_ratio_ = Rat(1, 1)
    /\ zero_angle_ = Rat(0, 1)
    /\ polarity_ = PolarityOf(FALSE)
    /\ history = [k \in Measurements |-> <<>>]
    /\ limits_ = <<>>
    /\ limit_door_ = 0
    /\ last = NoCall
    /\ thr = <<>>
    /\ is_initialized = FALSE
    /\ read_joint_indexing = <<>>
    /\ joint_data = [j \in JointIds |-> NoReading]
    /\ batch = NoBatch
    /\ write_joint_indexing = <<>>
    /\ torque_target_ = [j \in JointIds |-> Rat(0, 1)]
    /\ cmd = NoCmd
    /\ InitLoopIdle
    /\ InitPrintIdle

\* initialize(mode): fills read_joint_indexing and write_joint_indexing and
\* sets is_initialized
Initialize(indexing, writing) ==
    /\ ~is_initialized
    /\ is_initialized' = TRUE
    /\ read_joint_indexing' = indexing
    /\ write_joint_indexing' = writing
    /\ batch' = NoBatch
    /\ cmd' = NoCmd
    /\ UNCHANGED <<moduleVars, last, thr, loopVars, printVars, joint_data, torque_target_>>

\* the encoder of a readable joint delivers a measurement
NewReading(joint_index, reading) ==
    /\ is_initialized
    /\ Contains(read_joint_indexing, joint_index)
    /\ joint_data[joint_index] # reading
    /\ joint_data' = [joint_data EXCEPT ![joint_index] = reading]
    /\ batch' = NoBatch
    /\ UNCHANGED <<moduleVars, last, thr, loopVars, printVars, commandVars, is_initialized,
                   read_joint_indexing>>

\* get_positions / get_velocities / get_accelerations (joint_indexes)
GetBatch(kind, joint_indexes) ==
    /\ batch' = LET r == getJointDataSerialized(joint_indexes, kind)
                IN  [op |-> kind, arg |-> joint_indexes, present |-> r.present,
                     data |-> r.data]
    /\ UNCHANGED <<moduleVars, last, thr, loopVars, printVars, commandVars, is_initialized,
                   read_joint_indexing, joint_data>>

NextRegistry ==
    \/ \E indexing \in ReadIndexings : Initialize(indexing, LegJoints)
    \/ \E j \in JointIds, r \in Readings : NewReading(j, r)
    \/ \E kind \in BatchKinds, l \in IndexLists : GetBatch(kind, l)

SpecRegistry == InitRegistry /\ [][NextRegistry]_vars

(***************************************************************************)
(* SpecTorque: the Monopod registry and its torque setters.                *)
(***************************************************************************)
is_joint_controllable(joint_index) == Contains(write_joint_indexing, joint_index)

\* the command slots after torque_targets were written to the joints of
\* jointSerialization, from entry i on
RECURSIVE WriteTargets(_, _, _, _)
WriteTargets(slots, torque_targets, jointSerialization, i) ==
    IF i > Len(jointSerialization)
    THEN slots
    ELSE WriteTargets([slots EXCEPT ![jointSerialization[i]] = torque_targets[i]],
                      torque_targets, jointSerialization, i + 1)

\* the same, stopping at the first joint that is not controllable
RECURSIVE WriteTargetsUntilInvalid(_, _, _, _)
WriteTargetsUntilInvalid(slots, torque_targets, jointSerialization, i) ==
    IF i > Len(jointSerialization) \/ ~is_joint_controllable(jointSerialization[i])
    THEN slots
    ELSE WriteTargetsUntilInvalid(
             [slots EXCEPT ![jointSerialization[i]] = torque_targets[i]],
             torque_targets, jointSerialization, i + 1)

\* the index list a batch setter works on
write_serialization(joint_indexes) ==
    IF joint_indexes = <<>> THEN write_joint_indexing ELSE joint_indexes

\* every index is validated before any module is touched
all_controllable(jointSerialization) ==
    /\ is_initialized
    /\ \A i \in 1 .. Len(jointSerialization) :
           is_joint_controllable(jointSerialization[i])

\* set_torque_target(torque_target, joint_index)
SetTorqueTarget(torque_target, joint_index) ==
    LET ok == is_initialized /\ is_joint_controllable(joint_index)
    IN  /\ torque_target_' = IF ok
                             THEN [torque_target_ EXCEPT ![joint_index] = torque_target]
                             ELSE torque_target_
        /\ cmd' = [op |-> "set_torque_target", values |-> <<torque_target>>,
                   arg |-> <<joint_index>>, ok |-> ok]
        /\ UNCHANGED <<moduleVars, last, thr, loopVars, printVars, registryVars,
                       write_joint_indexing>>

\* a batch setter that writes joint by joint and gives up at the first
\* index that is not controllable
SetTorqueTargets_partial(torque_targets, joint_indexes) ==
    LET jointSerialization == write_serialization(joint_indexes)
        ok == all_controllable(jointSerialization)
    IN  /\ Len(torque_targets) = Len(jointSerialization)
        /\ torque_target_' = IF is_initialized
                             THEN WriteTargetsUntilInvalid(torque_target_, torque_targets,
                                                           jointSerialization, 1)
                             ELSE torque_target_
        /\ cmd' = [op |-> "set_torque_targets", values |-> torque_targets,
                   arg |-> joint_indexes, ok |-> ok]
        /\ UNCHANGED <<moduleVars, last, thr, loopVars, printVars, registryVars,
                       write_joint_indexing>>

\* set_torque_targets(torque_targets, joint_indexes = {}), one target per index
SetTorqueTargets(torque_targets, joint_indexes) ==
    LET jointSerialization == write_serialization(joint_indexes)
        ok == all_controllable(jointSerialization)
    IN  /\ Len(torque_targets) = Len(jointSerialization)
        /\ torque_target_' = IF ok
                             THEN WriteTargets(torque_target_, torque_targets,
                                               jointSerialization, 1)
                             ELSE torque_target_
        /\ cmd' = [op |-> "set_torque_targets", values |-> torque_targets,
                   arg |-> joint_indexes, ok |-> ok]
        /\ UNCHANGED <<moduleVars, last, thr, loopVars, printVars, registryVars,
                       write_joint_indexing>>

NextTorque ==
    \/ \E indexing \in ReadIndexings, writing \in WriteIndexings :
           Initialize(indexing, writing)
    \/ \E v \in TorqueArgs, j \in TorqueIndexArgs : SetTorqueTarget(v, j)
    \/ \E v \in TorqueLists, l \in TorqueIndexLists : SetTorqueTargets(v, l)

SpecTorque == InitRegistry /\ [][NextTorque]_vars

(***************************************************************************)
(* SpecLoop: SinePositionControl::loop in the control thread, statement by *)
(* statement, and the main thread, which sets stop_loop_ and calls         *)
(* stop_loop().                                                            *)
(***************************************************************************)
LegJointNames == {"hip", "knee"}

\* what leg_->get_measurements() returns: per joint position, velocity, torque
LegReadings ==
    {[hip  |-> [position |-> Rat(0, 1), velocity |-> Rat(1, 1), torque |-> Rat(0, 1)],
      knee |-> [position |-> Rat(1, 1), velocity |-> Rat(0, 1), torque |-> Rat(1, 2)]],
     [hip  |-> [position |-> Rat(1, 2), velocity |-> Rat(0, 1), torque |-> Rat(1, 1)],
      knee |-> [position |-> Rat(0, 1), velocity |-> Rat(1, 1), torque |-> Rat(0, 1)]]}

\* the locals actual_position_*, actual_velocity_*, actual_torque_* = 0.0
ZeroReading ==
    [j \in LegJointNames |->
        [position |-> Rat(0, 1), velocity |-> Rat(0, 1), torque |-> Rat(0, 1)]]

\* the locals desired_torque_hip, desired_torque_knee = 0.0
ZeroTorques == [j \in LegJointNames |-> Rat(0, 1)]

\* kp_ * (amplitude * sin(2 pi frequence count control_period) - position)
\*   + kd_ * (0 - velocity), kept as the term of its operands
desired_torque(actual, count) == <<"pd", count, actual.position, actual.velocity>>

\* the push_back statements of one iteration, in the order of the code
PushOrder ==
    <<[buffer |-> "encoders_", joint |-> 1],
      [buffer |-> "velocities_", joint |-> 1],
      [buffer |-> "torques_", joint |-> 1],
      [buffer |-> "control_buffer_", joint |-> 1],
      [buffer |-> "encoders_", joint |-> 2],
      [buffer |-> "velocities_", joint |-> 2],
      [buffer |-> "torques_", joint |-> 2],
      [buffer |-> "control_buffer_", joint |-> 2]>>

JointNameOf(joint) == IF joint = 1 THEN "hip" ELSE "knee"

NoStop == [pc |-> "none", push |-> 0, count |-> -1]

InitLoop ==
    /\ gear_ratio_ = Rat(1, 1)
    /\ zero_angle_ = Rat(0, 1)
    /\ polarity_ = PolarityOf(FALSE)
    /\ history = [k \in Measurements |-> <<>>]
    /\ limits_ = <<>>
    /\ limit_door_ = 0
    /\ last = NoCall
    /\ thr = <<>>
    /\ InitRegistryIdle
    /\ InitCommandIdle
    /\ stop_loop_ = FALSE
    /\ encoders_ = <<<<>>, <<>>>>
    /\ velocities_ = <<<<>>, <<>>>>
    /\ torques_ = <<<<>>, <<>>>>
    /\ control_buffer_ = <<<<>>, <<>>>>
    /\ loop = [pc |-> "head", count |-> 0, push |-> 0, actual |-> ZeroReading,
               desired_torque |-> ZeroTorques]
    /\ leg_calls = <<>>
    /\ stop_at = NoStop
    /\ main_pc = "idle"
    /\ InitPrintIdle

loopFrame == <<moduleVars, last, thr, registryVars, commandVars, printVars>>

\* a failed assert calls abort(), which ends the process and with it the
\* control thread
ProgramRuns == main_pc # "aborted"

\* while (!stop_loop_)
LoopHead ==
    /\ ProgramRuns
    /\ loop.pc = "head"
    /\ IF stop_loop_
       THEN /\ loop' = [loop EXCEPT !.pc = "dump_time"]
            /\ UNCHANGED leg_calls
       ELSE /\ loop.count < MaxTicks
            /\ loop' = [loop EXCEPT !.pc = "measure"]
            /\ leg_calls' = <<>>
    /\ UNCHANGED <<loopFrame, stop_loop_, bufferVars, stop_at, main_pc>>

\* auto data = leg_->get_measurements(); actual_* = data[...][...]
LoopMeasure(data) ==
    /\ ProgramRuns
    /\ loop.pc = "measure"
    /\ loop' = [loop EXCEPT !.pc = "compute", !.actual = data]
    /\ leg_calls' = Append(leg_calls, "get_measurements")
    /\ UNCHANGED <<loopFrame, stop_loop_, bufferVars, stop_at, main_pc>>

\* desired_position = ...; desired_torque_hip = ...; desired_torque_knee = ...
LoopCompute ==
    /\ ProgramRuns
    /\ loop.pc = "compute"
    /\ loop' = [loop EXCEPT !.pc = "set_target_torques",
                            !.desired_torque =
                                [j \in LegJointNames |->
                                    desired_torque(loop.actual[j], loop.count)]]
    /\ UNCHANGED <<loopFrame, stop_loop_, bufferVars, leg_calls, stop_at, main_pc>>

\* leg_->set_target_torques({desired_torque_hip, desired_torque_knee})
LoopSetTargetTorques ==
    /\ ProgramRuns
    /\ loop.pc = "set_target_torques"
    /\ loop' = [loop EXCEPT !.pc = "send_target_torques"]
    /\ leg_calls' = Append(leg_calls, "set_target_torques")
    /\ UNCHANGED <<loopFrame, stop_loop_, bufferVars, stop_at, main_pc>>

\* a loop that also tests stop_loop_ before it sends the torques
LoopSendTargetTorques_cancellable ==
    /\ ProgramRuns
    /\ loop.pc = "send_target_torques"
    /\ IF stop_loop_
       THEN /\ loop' = [loop EXCEPT !.pc = "dump_time"]
            /\ UNCHANGED leg_calls
       ELSE /\ loop' = [loop EXCEPT !.pc = "push", !.push = 1]
            /\ leg_calls' = Append(leg_calls, "send_target_torques")
    /\ UNCHANGED <<loopFrame, stop_loop_, bufferVars, stop_at, main_pc>>

\* leg_->send_target_torques()
LoopSendTargetTorques ==
    /\ ProgramRuns
    /\ loop.pc = "send_target_torques"
    /\ loop' = [loop EXCEPT !.pc = "push", !.push = 1]
    /\ leg_calls' = Append(leg_calls, "send_target_torques")
    /\ UNCHANGED <<loopFrame, stop_loop_, bufferVars, stop_at, main_pc>>

\* an iteration that logs no torque for the knee
LoopPushBack_skipping ==
    /\ ProgramRuns
    /\ loop.pc = "push"
    /\ LET s == PushOrder[loop.push]
           j == JointNameOf(s.joint)
       IN  /\ encoders_' = IF s.buffer = "encoders_"
                           THEN [encoders_ EXCEPT
                                    ![s.joint] = Append(@, loop.actual[j].position)]
                           ELSE encoders_
           /\ velocities_' = IF s.buffer = "velocities_"
                             THEN [velocities_ EXCEPT
                                      ![s.joint] = Append(@, loop.actual[j].velocity)]
                             ELSE velocities_
           /\ torques_' = IF s.buffer = "torques_" /\ s.joint = 1
                          THEN [torques_ EXCEPT
                                   ![s.joint] = Append(@, loop.actual[j].torque)]
                          ELSE torques_
           /\ control_buffer_' = IF s.buffer = "control_buffer_"
                                 THEN [control_buffer_ EXCEPT
                                          ![s.joint] = Append(@, loop.desired_torque[j])]
                                 ELSE control_buffer_
    /\ loop' = IF loop.push < Len(PushOrder)
               THEN [loop EXCEPT !.push = @ + 1]
               ELSE [loop EXCEPT !.pc = "spin", !.push = 0]
    /\ UNCHANGED <<loopFrame, stop_loop_, leg_calls, stop_at, main_pc>>

\* encoders_[0].push_back(actual_position_hip); ... ;
\* control_buffer_[1].push_back(desired_torque_knee): one statement per step
LoopPushBack ==
    /\ ProgramRuns
    /\ loop.pc = "push"
    /\ LET s == PushOrder[loop.push]
           j == JointNameOf(s.joint)
       IN  /\ encoders_' = IF s.buffer = "encoders_"
                           THEN [encoders_ EXCEPT
                                    ![s.joint] = Append(@, loop.actual[j].position)]
                           ELSE encoders_
           /\ velocities_' = IF s.buffer = "velocities_"
                             THEN [velocities_ EXCEPT
                                      ![s.joint] = Append(@, loop.actual[j].velocity)]
                             ELSE velocities_
           /\ torques_' = IF s.buffer = "torques_"
                          THEN [torques_ EXCEPT
                                   ![s.joint] = Append(@, loop.actual[j].torque)]
                          ELSE torques_
           /\ control_buffer_' = IF s.buffer = "control_buffer_"
                                 THEN [control_buffer_ EXCEPT
                                          ![s.joint] = Append(@, loop.desired_torque[j])]
                                 ELSE control_buffer_
    /\ loop' = IF loop.push < Len(PushOrder)
               THEN [loop EXCEPT !.push = @ + 1]
               ELSE [loop EXCEPT !.pc = "spin", !.push = 0]
    /\ UNCHANGED <<loopFrame, stop_loop_, leg_calls, stop_at, main_pc>>

\* spinner.spin(); time_logger.tac(); the printings
LoopSpin ==
    /\ ProgramRuns
    /\ loop.pc = "spin"
    /\ loop' = [loop EXCEPT !.pc = "increment"]
    /\ UNCHANGED <<loopFrame, stop_loop_, bufferVars, leg_calls, stop_at, main_pc>>

\* ++count
LoopIncrement ==
    /\ ProgramRuns
    /\ loop.pc = "increment"
    /\ loop' = [loop EXCEPT !.pc = "head", !.count = @ + 1]
    /\ UNCHANGED <<loopFrame, stop_loop_, bufferVars, leg_calls, stop_at, main_pc>>

\* time_logger.dump_measurements(...) after the loop
LoopDumpTime ==
    /\ ProgramRuns
    /\ loop.pc = "dump_time"
    /\ loop' = [loop EXCEPT !.pc = "returned"]
    /\ UNCHANGED <<loopFrame, stop_loop_, bufferVars, leg_calls, stop_at, main_pc>>

\* the main thread sets stop_loop_
RequestStop ==
    /\ ~stop_loop_
    /\ stop_loop_' = TRUE
    /\ stop_at' = [pc |-> loop.pc, push |-> loop.push, count |-> loop.count]
    /\ UNCHANGED <<loopFrame, bufferVars, loop, leg_calls, main_pc>>

\* the main thread enters stop_loop() and opens the log file
StopLoopCall ==
    /\ main_pc = "idle"
    /\ main_pc' = "assert"
    /\ UNCHANGED <<loopFrame, stop_loop_, bufferVars, loop, leg_calls, stop_at>>

\* the condition of the assert in stop_loop()
assert_sizes ==
    /\ Len(encoders_[1]) = Len(velocities_[1])
    /\ Len(velocities_[1]) = Len(control_buffer_[1])
    /\ Len(control_buffer_[1]) = Len(torques_[1])

\* assert(...): a failed assert aborts the program
StopLoopAssert ==
    /\ main_pc = "assert"
    /\ main_pc' = IF assert_sizes THEN "dump" ELSE "aborted"
    /\ UNCHANGED <<loopFrame, stop_loop_, bufferVars, loop, leg_calls, stop_at>>

\* the dump of the buffers, flush and close
StopLoopDump ==
    /\ main_pc = "dump"
    /\ main_pc' = "returned"
    /\ UNCHANGED <<loopFrame, stop_loop_, bufferVars, loop, leg_calls, stop_at>>

NextLoop ==
    \/ LoopHead
    \/ \E data \in LegReadings : LoopMeasure(data)
    \/ LoopCompute
    \/ LoopSetTargetTorques
    \/ LoopSendTargetTorques
    \/ LoopPushBack
    \/ LoopSpin
    \/ LoopIncrement
    \/ LoopDumpTime
    \/ RequestStop
    \/ StopLoopCall
    \/ StopLoopAssert
    \/ StopLoopDump

SpecLoop == InitLoop /\ [][NextLoop]_vars

\* the statements of loop(), whichever the control thread stands at
ControlThread ==
    \/ LoopHead
    \/ \E data \in LegReadings : LoopMeasure(data)
    \/ LoopCompute
    \/ LoopSetTargetTorques
    \/ LoopSendTargetTorques
    \/ LoopPushBack
    \/ LoopSpin
    \/ LoopIncrement
    \/ LoopDumpTime

\* SpecLoop with the control thread scheduled fairly: while the process
\* lives, a statement the thread stands at is eventually executed
SpecLoopFair == SpecLoop /\ WF_vars(ControlThread)

(***************************************************************************)
(* printing_loop of the planarizer demo                                    *)
(* (src/src/monopod_drivers/demos/demo_planarizer.cpp).  Each CAN bus      *)
(* keeps the frames it received in a time series that holds the newest     *)
(* MaxHeld elements; a frame is modelled by the bus and the time index it  *)
(* was stored under.                                                       *)
(***************************************************************************)
MaxHeld == 2        \* elements a time series retains
MaxFrames == 4      \* frames a bus receives in a run
Buses == {1, 2}     \* canbus.can_bus1, canbus.can_bus2

NoFrame == [bus |-> 0, index |-> -1]
EmptySeries == [oldest |-> 0, newest |-> -1]

\* the element a time series holds under a time index
element_at(bus, index) == [bus |-> bus, index |-> index]

\* newest_timeindex() answers once the series holds an element
has_elements(ts) == ts.newest >= ts.oldest

\* appending stores under the next time index; past the capacity the oldest
\* element is dropped
append(ts) ==
    [newest |-> ts.newest + 1,
     oldest |-> IF ts.newest + 1 - ts.oldest >= MaxHeld THEN ts.oldest + 1 ELSE ts.oldest]

\* what operator[] serves: the oldest retained index when the requested one
\* has aged out, else the requested one
served_timeindex(ts, timeindex) ==
    IF timeindex < ts.oldest THEN ts.oldest ELSE timeindex

\* operator[](timeindex) waits until the index has been written, returns the
\* element served and leaves the index served in the caller's variable
at(bus, timeindex) ==
    LET served == served_timeindex(output_frame[bus], timeindex)
    IN  [timeindex |-> served, element |-> element_at(bus, served)]

InitPrint ==
    /\ InitModule
    /\ last = NoCall
    /\ thr = <<>>
    /\ InitRegistryIdle
    /\ InitCommandIdle
    /\ InitLoopIdle
    /\ output_frame = [b \in Buses |-> EmptySeries]
    /\ printer = [pc |-> "start", timeindex |-> 0, received_timeindex |-> 0,
                  can_frame1 |-> NoFrame, can_frame2 |-> NoFrame]

printFrame == <<moduleVars, last, thr, registryVars, commandVars, loopVars>>

\* a bus receives a frame and appends it to its output series
ReceiveFrame(bus) ==
    /\ output_frame[bus].newest + 1 < MaxFrames
    /\ output_frame' = [output_frame EXCEPT ![bus] = append(@)]
    /\ UNCHANGED <<printFrame, printer>>

\* long int timeindex = can_bus1->get_output_frame()->newest_timeindex();
PrintStart ==
    /\ printer.pc = "start"
    /\ has_elements(output_frame[1])
    /\ printer' = [printer EXCEPT !.pc = "copy", !.timeindex = output_frame[1].newest]
    /\ UNCHANGED <<printFrame, output_frame>>

\* long int received_timeindex = timeindex;
PrintCopy ==
    /\ printer.pc = "copy"
    /\ printer' = [printer EXCEPT !.pc = "read1", !.received_timeindex = printer.timeindex]
    /\ UNCHANGED <<printFrame, output_frame>>

\* can_frame1 = (*can_bus1->get_output_frame())[received_timeindex];
PrintRead1 ==
    /\ printer.pc = "read1"
    /\ printer.received_timeindex <= output_frame[1].newest
    /\ LET r == at(1, printer.received_timeindex)
       IN  printer' = [printer EXCEPT !.pc = "read2", !.can_frame1 = r.element,
                                      !.received_timeindex = r.timeindex]
    /\ UNCHANGED <<printFrame, output_frame>>

\* can_frame2 = (*can_bus2->get_output_frame())[received_timeindex];
PrintRead2 ==
    /\ printer.pc = "read2"
    /\ printer.received_timeindex <= output_frame[2].newest
    /\ LET r == at(2, printer.received_timeindex)
       IN  printer' = [printer EXCEPT !.pc = "advance", !.can_frame2 = r.element,
                                      !.received_timeindex = r.timeindex]
    /\ UNCHANGED <<printFrame, output_frame>>

\* a loop that resumes from the index the series served
PrintAdvance_from_served ==
    /\ printer.pc = "advance"
    /\ printer' = [printer EXCEPT !.pc = "copy",
                                  !.timeindex = printer.received_timeindex + 1]
    /\ UNCHANGED <<printFrame, output_frame>>

\* timeindex++; then the index and both frames are printed
PrintAdvance ==
    /\ printer.pc = "advance"
    /\ printer' = [printer EXCEPT !.pc = "copy", !.timeindex = printer.timeindex + 1]
    /\ UNCHANGED <<printFrame, output_frame>>

NextPrint ==
    \/ \E bus \in Buses : ReceiveFrame(bus)
    \/ PrintStart
    \/ PrintCopy
    \/ PrintRead1
    \/ PrintRead2
    \/ PrintAdvance

SpecPrint == InitPrint /\ [][NextPrint]_vars

(***************************************************************************)
(* Properties of the limit table.                                          *)
(***************************************************************************)
\* C1: get_limit(kind) for a kind no set_limit call configured returns the
\* default unconstrained limit {lowest, max} and does not end in an error.
C1_GetLimitUnsetReturnsDefault ==
    (last.op = "get_limit" /\ last.kind \notin DOMAIN limits_)
        => (last.err = "none" /\ last.lim = DefaultLimit)

\* C2: whenever no set_limit, get_limit or check_limits call is in progress
\* (every thread is outside its calls) the limit lock is free.
C2_LockFreeWhenNoCallInProgress ==
    (\A t \in Threads : thr[t].pc = "idle") => limit_door_ = 0

\* C3: the {min, max} pair that check_limits copied out of the map, and the
\* pair that get_limit returned, is the default limit or a limit handed to
\* set_limit as a whole, never the min of one with the max of another.
C3_NoTornLimit ==
    \A t \in Threads :
        /\ thr[t].pc \in {"cl_measure", "cl_range"}
               => JointLimit(thr[t].rmin, thr[t].rmax)
                      \in ThreadLimitArgs \cup {DefaultLimit}
        /\ (thr[t].pc = "idle" /\ thr[t].ret.op = "get_limit" /\ thr[t].ret.err = "none")
               => thr[t].ret.lim \in ThreadLimitArgs \cup {DefaultLimit}

\* a reader has copied a configured limit of a kind while another thread stands
\* in set_limit for the same kind with another limit
C3_Witness ==
    \E t, u \in Threads :
        /\ t # u
        /\ thr[t].pc = "cl_measure"
        /\ JointLimit(thr[t].rmin, thr[t].rmax) \in ThreadLimitArgs
        /\ thr[u].pc = "sl_lock"
        /\ thr[u].index = thr[t].index
        /\ thr[u].limit # JointLimit(thr[t].rmin, thr[t].rmax)

\* C4: a thread that is executing get_measured_angle, get_measured_velocity or
\* get_measured_acceleration, called directly or from check_limits, does not
\* hold the limit lock.
C4_NoLockWhileMeasuring ==
    \A t \in Threads : thr[t].pc \in {"cl_measure", "gm_measure"} => limit_door_ # t

\* the calibrated measurement of a kind satisfies min <= value < max
SatisfiesLimit(kind, limit) ==
    /\ ~isnan(get_measured(kind))
    /\ get_measured(kind).n * limit.min.d >= limit.min.n * get_measured(kind).d
    /\ get_measured(kind).n * limit.max.d < limit.max.n * get_measured(kind).d

\* C5: check_limits returns true iff every configured kind (position,
\* velocity, acceleration, encoder_index) has its own calibrated measurement in
\* [min, max), an acceleration limit with a NaN acceleration being skipped.
C5_CheckLimitsIff ==
    last.op = "check_limits"
        => (last.flag <=>
               \A k \in DOMAIN limits_ :
                   \/ k = "acceleration" /\ isnan(get_measured("acceleration"))
                   \/ SatisfiesLimit(k, limits_[k]))

\* C6: with a position or velocity limit configured and data present, a
\* measurement equal to max makes check_limits return false (also when
\* max = min), and a measurement equal to min < max passes the check (it
\* returns true when that limit is the only one configured).
C6_HalfOpen ==
    last.op = "check_limits"
        => \A k \in {"position", "velocity"} \cap DOMAIN limits_ :
               ~isnan(get_measured(k))
                   => /\ get_measured(k) = limits_[k].max => ~last.flag
                      /\ (limits_[k].max = limits_[k].min
                             /\ get_measured(k) = limits_[k].min) => ~last.flag
                      /\ (get_measured(k) = limits_[k].min
                             /\ limits_[k].min # limits_[k].max
                             /\ DOMAIN limits_ = {k}) => last.flag

\* check_limits has passed a position equal to the lower bound of its limit
C6_Witness ==
    /\ last.op = "check_limits"
    /\ last.flag
    /\ DOMAIN limits_ = {"position"}
    /\ get_measured("position") = limits_["position"].min
    /\ limits_["position"].min # limits_["position"].max

(***************************************************************************)
(* Properties of the calibrated getters.                                   *)
(***************************************************************************)
\* C7: on a channel with no sample the getters return NaN and
\* get_joint_measurement_index returns -1; on a channel with a sample they
\* return a real value and an index >= 0.
C7_NoDataIsNaN ==
    /\ last.op = "get_measured"
           => (isnan(last.val) <=> Len(history[last.kind]) = 0)
    /\ last.op = "get_joint_measurement_index"
           => IF Len(history[last.kind]) = 0 THEN last.idx = -1 ELSE last.idx >= 0

\* get_measured_angle has returned NaN on an empty position channel of a module
\* with a non-zero zero offset
C7_Witness ==
    /\ last.op = "get_measured"
    /\ last.kind = "position"
    /\ Len(history["position"]) = 0
    /\ isnan(last.val)
    /\ zero_angle_ # Rat(0, 1)

\* C8: get_measured_angle() equals polarity * raw / gear_ratio - zero_angle for
\* the newest raw position sample, with the zero_angle and polarity of the most
\* recent set_zero_angle / set_joint_polarity call.
C8_MeasuredAngle ==
    /\ (last.op = "get_measured" /\ last.kind = "position"
            /\ Len(history["position"]) > 0)
           => LET raw == history["position"][Len(history["position"])]
                  num == polarity_.n * raw.n * gear_ratio_.d * zero_angle_.d
                             - zero_angle_.n * polarity_.d * raw.d * gear_ratio_.n
                  den == polarity_.d * raw.d * gear_ratio_.n * zero_angle_.d
              IN  ~isnan(last.val) /\ last.val.n * den = last.val.d * num
    /\ last.op = "set_zero_angle" => zero_angle_ = last.val
    /\ last.op = "set_joint_polarity"
           => polarity_ = (IF last.flag THEN Rat(-1, 1) ELSE Rat(1, 1))

\* gear_ratio 1, normal polarity, raw sample 0.5, zero_angle 0.2: 0.3
C8_Witness ==
    /\ last.op = "get_measured"
    /\ last.kind = "position"
    /\ gear_ratio_ = Rat(1, 1)
    /\ polarity_ = Rat(1, 1)
    /\ zero_angle_ = Rat(1, 5)
    /\ history["position"] = <<Rat(0, 1), Rat(1, 2)>>
    /\ last.val = Rat(3, 10)

(***************************************************************************)
(* Properties of the batch getters.                                        *)
(***************************************************************************)
\* C9: on an initialized registry a batch getter called with an index list
\* that holds an index not in read_joint_indexing, at any place of the list,
\* returns nullopt.
C9_InvalidIndexGivesNullopt ==
    (batch.op # "none" /\ is_initialized
         /\ \E i \in 1 .. Len(batch.arg) : ~Contains(read_joint_indexing, batch.arg[i]))
        => (~batch.present /\ batch.data = <<>>)

\* a valid index followed by an invalid one
C9_Witness ==
    /\ batch.op = "position"
    /\ is_initialized
    /\ batch.arg = <<0, 7>>
    /\ ~batch.present

\* C10: on an initialized registry a present result is aligned with the index
\* order used: read_joint_indexing for an empty list, the list itself
\* otherwise; entry k is the value of the k-th index.
C10_ResultAligned ==
    (batch.op # "none" /\ is_initialized /\ batch.present)
        => LET order == IF batch.arg = <<>> THEN read_joint_indexing ELSE batch.arg
           IN  /\ Len(batch.data) = Len(order)
               /\ \A k \in 1 .. Len(order) :
                      batch.data[k] = joint_data[order[k]][batch.op]

\* an explicit list in another order than read_joint_indexing, the two joints
\* reporting different positions
C10_Witness ==
    /\ batch.op = "position"
    /\ is_initialized
    /\ batch.present
    /\ batch.arg = <<1, 0>>
    /\ batch.data = <<Rat(1, 1), Rat(0, 1)>>

\* C11: while the registry is not initialized every batch getter returns
\* nullopt, whatever the index list: an explicit list, or the empty default
\* list while read_joint_indexing is still empty.
C11_UninitializedGivesNullopt ==
    (batch.op # "none" /\ ~is_initialized) => ~batch.present

(***************************************************************************)
(* Properties of the torque setters.                                       *)
(***************************************************************************)
\* the index list the last torque setter call worked on
cmd_indexes ==
    IF cmd.op = "set_torque_targets" /\ cmd.arg = <<>>
    THEN write_joint_indexing
    ELSE cmd.arg

\* C12: set_torque_target and set_torque_targets are all-or-nothing: a call
\* made while the registry is not initialized, or naming any index that is
\* not controllable, returns false and leaves the torque command slot of
\* every joint as it was.
C12_TorqueAllOrNothing ==
    [][(/\ cmd'.op # "none"
        /\ \/ ~is_initialized
           \/ \E i \in 1 .. Len(cmd_indexes') :
                  ~Contains(write_joint_indexing, cmd_indexes'[i]))
           => (~cmd'.ok /\ torque_target_' = torque_target_)]_vars

\* joint 0 controllable and commanded, joint 1 readable only: the batch for
\* both has failed and joint 0 keeps its earlier command
C12_Witness ==
    /\ is_initialized
    /\ write_joint_indexing = <<0>>
    /\ Contains(read_joint_indexing, 1)
    /\ cmd.op = "set_torque_targets"
    /\ cmd.arg = <<0, 1>>
    /\ cmd.values = <<Rat(2, 1), Rat(2, 1)>>
    /\ ~cmd.ok
    /\ torque_target_[0] = Rat(1, 1)

(***************************************************************************)
(* Properties of the control loop.                                         *)
(***************************************************************************)
\* C13: every iteration of loop() reads the measurements, computes, writes
\* the torque targets and then checks the limits: no torque is set or sent
\* before the iteration has read its measurements, and by the end of the
\* iteration a limit check has followed the write.
C13_TickProtocol ==
    /\ \A i \in 1 .. Len(leg_calls) :
           leg_calls[i] \in {"set_target_torques", "send_target_torques"}
               => \E r \in 1 .. i - 1 : leg_calls[r] = "get_measurements"
    /\ loop.pc = "increment"
           => \E w \in 1 .. Len(leg_calls) :
                  /\ leg_calls[w] = "send_target_torques"
                  /\ \E c \in w + 1 .. Len(leg_calls) : leg_calls[c] = "check_limits"

\* every log holds one entry per finished iteration
logs_complete ==
    \A joint \in 1 .. 2 :
        /\ Len(encoders_[joint]) = loop.count
        /\ Len(velocities_[joint]) = loop.count
        /\ Len(torques_[joint]) = loop.count
        /\ Len(control_buffer_[joint]) = loop.count

\* C14: stop_loop_ is tested only at the head of the loop. Once it is set,
\* an iteration in flight runs to its end (it reads the measurements, sets
\* and sends the torques and appends to every log) and no further iteration
\* starts: the loop is left with exactly the iteration in flight completed.
C14_StopOnlyAtLoopHead ==
    /\ loop.pc \in {"dump_time", "returned"}
           => /\ stop_loop_
              /\ loop.count = stop_at.count + (IF stop_at.pc = "head" THEN 0 ELSE 1)
              /\ logs_complete
              /\ stop_at.pc # "head"
                     => leg_calls = <<"get_measurements", "set_target_torques",
                                      "send_target_torques">>
    /\ (stop_loop_ /\ loop.pc \notin {"head", "dump_time", "returned"})
           => (stop_at.pc # "head" /\ loop.count = stop_at.count)

\* stop_loop_ was set in the second iteration between set_target_torques
\* and send_target_torques, and the loop has been left after that iteration
C14_Witness ==
    /\ loop.pc = "returned"
    /\ stop_at.pc = "send_target_torques"
    /\ stop_at.count = 1
    /\ loop.count = 2

\* C15: the assertion of stop_loop() holds whenever it is evaluated: the
\* logs of joint 0 in encoders_, velocities_, control_buffer_ and torques_
\* have the same size, wherever the control thread is in loop().
C15_StopLoopAssertionHolds ==
    main_pc = "assert" => assert_sizes

(***************************************************************************)
(* Properties of the calibrated getters.                                   *)
(***************************************************************************)
\* -x for a double
negated(x) == DSub(Rat(0, 1), x)

\* a value just returned by a getter is polarity * raw / gear_ratio of the
\* newest sample of its channel, once the zero offset is added back to an angle
scaled_result ==
    (last.op = "get_measured" /\ Len(history[last.kind]) > 0)
        => LET raw == history[last.kind][Len(history[last.kind])]
               zero == IF last.kind = "position" THEN zero_angle_ ELSE Rat(0, 1)
           IN  /\ ~isnan(last.val)
               /\ (last.val.n * zero.d + zero.n * last.val.d)
                          * (polarity_.d * raw.d * gear_ratio_.n)
                      = (last.val.d * zero.d) * (polarity_.n * raw.n * gear_ratio_.d)

\* C16: get_measured_velocity, get_measured_acceleration and
\* get_measured_index_angle each return polarity * raw / gear_ratio of the
\* newest sample of their own channel (get_measured_angle the same less
\* zero_angle); a change of zero_angle changes nothing these three results
\* are made of; a change of polarity negates the polarity factor, and with it
\* the gear-scaled term of all four getters.
C16_GearAndPolarityOnEveryChannel ==
    [][/\ scaled_result'
       /\ zero_angle_' # zero_angle_ => UNCHANGED <<polarity_, gear_ratio_, history>>
       /\ polarity_' # polarity_
              => (polarity_' = negated(polarity_) /\ UNCHANGED <<gear_ratio_, history>>)
       /\ last'.op = "set_joint_polarity"
              => polarity_' = (IF last'.flag THEN negated(Rat(1, 1)) ELSE Rat(1, 1))]_vars

\* gear_ratio 2, reversed polarity, zero_angle 0.2, raw velocity 0.5: -0.25
C16_Witness ==
    /\ last.op = "get_measured"
    /\ last.kind = "velocity"
    /\ gear_ratio_ = Rat(2, 1)
    /\ polarity_ = Rat(-1, 1)
    /\ zero_angle_ = Rat(1, 5)
    /\ history["velocity"] = <<Rat(1, 2)>>
    /\ last.val = Rat(-1, 4)

(***************************************************************************)
(* Properties of the read operations.                                      *)
(***************************************************************************)
ReadOps == {"get_measured", "get_joint_measurement_index", "check_limits"}

\* C17: get_measured_angle / _velocity / _acceleration / _index_angle,
\* get_joint_measurement_index and check_limits leave the calibration, every
\* entry of the limit table and the measurement histories unchanged, and a
\* call repeated with no write or new sample in between returns the same
\* result.
C17_ReadsHaveNoEffect ==
    [][last'.op \in ReadOps
          => /\ UNCHANGED <<gear_ratio_, zero_angle_, polarity_, limits_, history>>
             /\ (last.op = last'.op /\ last.kind = last'.kind) => last' = last]_vars

\* check_limits has run on a module with a limit, a sample and a calibration
\* other than the constructed one
C17_Witness ==
    /\ last.op = "check_limits"
    /\ "position" \in DOMAIN limits_
    /\ Len(history["position"]) > 0
    /\ zero_angle_ # Rat(0, 1)
    /\ polarity_ = Rat(-1, 1)

\* C18: check_limits exempts NaN for acceleration only: with a position or
\* velocity limit configured, the default unconstrained one included, and no
\* sample on that channel it returns false; an acceleration limit on an
\* acceleration channel without sample never makes it return false.
C18_NaNExemptOnlyForAcceleration ==
    last.op = "check_limits"
        => /\ (\E k \in {"position", "velocity"} :
                   k \in DOMAIN limits_ /\ Len(history[k]) = 0)
                  => ~last.flag
           /\ (/\ "acceleration" \in DOMAIN limits_
               /\ Len(history["acceleration"]) = 0
               /\ "encoder_index" \notin DOMAIN limits_
               /\ \A k \in DOMAIN limits_ \ {"acceleration"} :
                      SatisfiesLimit(k, limits_[k]))
                  => last.flag

\* only the default limit is configured, on the position channel, which has
\* no sample: check_limits has returned false
C18_Witness ==
    /\ last.op = "check_limits"
    /\ DOMAIN limits_ = {"position"}
    /\ limits_["position"] = DefaultLimit
    /\ Len(history["position"]) = 0
    /\ ~last.flag

\* an acceleration limit and a satisfied velocity limit are configured, the
\* acceleration channel has no sample: check_limits has returned true
C18_WitnessAcceleration ==
    /\ last.op = "check_limits"
    /\ DOMAIN limits_ = {"velocity", "acceleration"}
    /\ Len(history["acceleration"]) = 0
    /\ Len(history["velocity"]) > 0
    /\ last.flag

(***************************************************************************)
(* The limit table as a register.                                          *)
(***************************************************************************)
\* C19: the limit table is a register per kind: a get_limit(k) call made
\* after set_limit calls ends with the limit the most recent set_limit(k, .)
\* stored, and a set_limit(k, L) call writes the entry of k only: the stored
\* limits of the other kinds and the calibration stay as they are.
C19_LimitTableIsRegister ==
    [][/\ \A t \in Threads :
              (/\ thr'[t].pc = "idle"
               /\ thr'[t].ret.op = "get_limit"
               /\ thr'[t].ret.kind \in DOMAIN limits_')
                  => /\ thr'[t].ret.err = "none"
                     /\ thr'[t].ret.lim = limits_'[thr'[t].ret.kind]
       /\ limits_' # limits_
              => /\ \E t \in Threads :
                        /\ thr[t].pc \in {"sl_index", "sl_min", "sl_max"}
                        /\ \A k \in DOMAIN limits_ \ {thr[t].index} :
                               limits_'[k] = limits_[k]
                 /\ UNCHANGED <<gear_ratio_, zero_angle_, polarity_>>]_vars

(***************************************************************************)
(* Order of the samples.                                                   *)
(***************************************************************************)
\* C20: the samples are never reordered: as samples are appended the value
\* of get_joint_measurement_index(kind) never decreases (it starts at -1 and
\* never returns to -1 or to a smaller index), a call returns the index of
\* the newest sample, and every get_measured_* result is computed from the
\* sample at that newest index.
C20_NewestSampleInOrder ==
    [][/\ \A k \in Measurements :
              get_joint_measurement_index(k)' >= get_joint_measurement_index(k)
       /\ last'.op = "get_joint_measurement_index"
              => /\ last'.idx = Len(history'[last'.kind]) - 1
                 /\ last'.idx >= -1
       /\ scaled_result']_vars

\* the index of the second sample of a channel whose two samples differ
C20_Witness ==
    /\ last.op = "get_joint_measurement_index"
    /\ last.kind = "velocity"
    /\ history["velocity"] = <<Rat(1, 1), Rat(1, 2)>>
    /\ last.idx = 1

\* C21: loop() terminates once stopped: from stop_loop_ set (it stays set)
\* the fairly scheduled control thread leaves the while loop and reaches the
\* end of the function, after the timing dump; while stop_loop_ is false the
\* loop is not left.
C21_LoopTerminatesOnceStopped ==
    /\ [](loop.pc \in {"dump_time", "returned"} => stop_loop_)
    /\ stop_loop_ ~> loop.pc = "returned"

\* C22: whenever the control thread stands at the head of the while loop or
\* has left the loop, the eight logs (encoders_, velocities_, torques_,
\* control_buffer_ of both joints) have the same length, the number of
\* completed iterations, so every row j below encoders_[0].size() that the
\* dump of stop_loop reads exists in all four buffers of both joints.
C22_LogsAlignedAtLoopHead ==
    loop.pc \in {"head", "dump_time", "returned"}
        => /\ logs_complete
           /\ \A j \in 1 .. Len(encoders_[1]) :
                  \A joint \in 1 .. 2 :
                      /\ j <= Len(encoders_[joint])
                      /\ j <= Len(velocities_[joint])
                      /\ j <= Len(control_buffer_[joint])
                      /\ j <= Len(torques_[joint])

\* the loop has been left after two iterations and stop_loop() is about
\* to dump the two rows
C22_Witness ==
    /\ loop.pc = "returned"
    /\ loop.count = 2
    /\ Len(encoders_[1]) = 2
    /\ main_pc = "dump"

\* the step is the indexed access of printing_loop to the series of one bus
reads_bus(bus) ==
    /\ printer.pc = (IF bus = 1 THEN "read1" ELSE "read2")
    /\ printer'.pc # printer.pc

\* the frame the printing thread holds for a bus
can_frame(p, bus) == IF bus = 1 THEN p.can_frame1 ELSE p.can_frame2

\* C23: an indexed access with an index that has aged out returns the oldest
\* element still held and overwrites the caller's index variable with the
\* index served; with an index still held it returns that element and
\* leaves the variable as it was.  Whatever was served, timeindex changes
\* only at the end of an iteration of printing_loop, by exactly 1, and each
\* iteration starts its request from timeindex.
C23_FallbackToOldestAndStep ==
    [][/\ \A bus \in Buses : reads_bus(bus) =>
              LET requested == printer.received_timeindex
                  ts == output_frame[bus]
              IN  IF requested < ts.oldest
                  THEN /\ can_frame(printer', bus) = element_at(bus, ts.oldest)
                       /\ printer'.received_timeindex = ts.oldest
                  ELSE /\ can_frame(printer', bus) = element_at(bus, requested)
                       /\ printer'.received_timeindex = requested
       /\ (printer.pc = "advance" /\ printer'.pc # "advance")
              => printer'.timeindex = printer.timeindex + 1
       /\ (printer.pc \notin {"start", "advance"})
              => printer'.timeindex = printer.timeindex
       /\ printer'.pc = "read1" => printer'.received_timeindex = printer'.timeindex
      ]_vars

\* an iteration has ended whose first access was served a newer index than
\* the one requested, and the next request is only one further
C23_Witness ==
    /\ printer.pc = "read1"
    /\ printer.can_frame1.index >= printer.timeindex + 1
    /\ printer.can_frame2.index >= printer.timeindex + 1
    /\ printer.received_timeindex = printer.timeindex
====
